---------------------------- MODULE Spec2Model ----------------------------
(***************************************************************************)
(* A model of src/main.py: one invocation of main() after another against  *)
(* the durable store state.sqlite.  A run is cut into steps at its I/O     *)
(* points (each GET, each sendMessage, each commit), so that a failure or  *)
(* a crash can fall between any two of them.                               *)
(*                                                                         *)
(* Strings are sequences of character codes (32 is the blank), so that     *)
(* str.strip(), str.isdigit() and the ordering of list.sort are computed   *)
(* and not assumed.                                                        *)
(***************************************************************************)
EXTENDS Integers, Sequences, FiniteSets, TLC

\* ------------------------------------------------------------------ bounds
MaxRuns == 2        \* invocations of main() that are explored
MaxAnchors == 2     \* ".entry-title a[href]" anchors on one daily page
MaxPosts == 3       \* posts collected into all_posts in one run

\* ----------------------------------------------------------------- strings
IsSpace(c) == c = 32
IsDigit(c) == c \in 48..57

RECURSIVE lstrip(_)
lstrip(s) == IF s # <<>> /\ IsSpace(Head(s)) THEN lstrip(Tail(s)) ELSE s

RECURSIVE rstrip(_)
rstrip(s) ==
    IF s # <<>> /\ IsSpace(s[Len(s)]) THEN rstrip(SubSeq(s, 1, Len(s) - 1)) ELSE s

\* str.strip()
strip(s) == rstrip(lstrip(s))

\* a < b for Python strings: code points, left to right, a proper prefix first
RECURSIVE StrLess(_, _)
StrLess(a, b) ==
    IF b = <<>> THEN FALSE
    ELSE IF a = <<>> THEN TRUE
    ELSE IF Head(a) # Head(b) THEN Head(a) < Head(b)
    ELSE StrLess(Tail(a), Tail(b))

\* ------------------------------------------------------------- environment
\* The process environment of one invocation: BOT_TOKEN, CHANNEL_CHAT_ID,
\* CHANNEL_USERNAME ("" is an unset variable: os.getenv(n, "")).
Envs ==
    { [BOT_TOKEN |-> <<32, 116>>, CHANNEL_CHAT_ID |-> <<32>>, CHANNEL_USERNAME |-> <<32, 97>>],
      [BOT_TOKEN |-> <<>>,        CHANNEL_CHAT_ID |-> <<64, 97>>, CHANNEL_USERNAME |-> <<>>],
      [BOT_TOKEN |-> <<32>>,      CHANNEL_CHAT_ID |-> <<64, 97>>, CHANNEL_USERNAME |-> <<>>],
      [BOT_TOKEN |-> <<116>>,     CHANNEL_CHAT_ID |-> <<>>,   CHANNEL_USERNAME |-> <<>>],
      [BOT_TOKEN |-> <<116>>,     CHANNEL_CHAT_ID |-> <<32>>, CHANNEL_USERNAME |-> <<32, 32>>] }

\* What a call returns: a value, or the SystemExit it raises.
Value(v) == [exit |-> FALSE, v |-> v]
SystemExit == [exit |-> TRUE, v |-> <<>>]

\* env_required(name)
env_required_unchecked(raw) == Value(strip(raw))
env_required(raw) == IF strip(raw) = <<>> THEN SystemExit ELSE Value(strip(raw))

\* env_any(*names): the first non-blank one
RECURSIVE env_any(_)
env_any(raws) ==
    IF raws = <<>> THEN SystemExit
    ELSE IF strip(Head(raws)) # <<>> THEN Value(strip(Head(raws)))
    ELSE env_any(Tail(raws))

RECURSIVE lstrip_minus(_)
lstrip_minus(s) == IF s # <<>> /\ Head(s) = 45 THEN lstrip_minus(Tail(s)) ELSE s

isdigit(s) == s # <<>> /\ \A k \in 1..Len(s) : IsDigit(s[k])

\* normalize_channel(value)
normalize_channel(value) ==
    LET v == strip(value)
    IN  IF isdigit(lstrip_minus(v)) THEN v
        ELSE IF v = <<>> \/ Head(v) # 64 THEN <<64>> \o v
        ELSE v

\* ------------------------------------------------------------------- store
\* The posted table: rows (url, posted_at), url the primary key.
already_posted_never(tbl, url) == FALSE
already_posted(tbl, url) == \E row \in tbl : row.url = url

\* CREATE TABLE posted on every connect, whatever the file holds
create_table_anew(state, tbl) == {}
\* CREATE TABLE IF NOT EXISTS posted, on a file that is a database or is absent
create_table_if_not_exists(state, tbl) == IF state = "missing" THEN {} ELSE tbl

mark_posted_no_commit(tbl, url, now) == tbl
mark_posted_truncate(tbl, url, now) == {[url |-> url, posted_at |-> now]}
mark_posted_replace(tbl, url, now) ==
    {row \in tbl : row.url # url} \cup {[url |-> url, posted_at |-> now]}
\* INSERT OR IGNORE INTO posted(url, posted_at) VALUES(?, ?); commit
mark_posted(tbl, url, now) ==
    IF \E row \in tbl : row.url = url THEN tbl
    ELSE tbl \cup {[url |-> url, posted_at |-> now]}

PostedUrls(tbl) == {row.url : row \in tbl}

\* -------------------------------------------------------------------- http
\* One GET ends in a response (its status) or in an exception (0).
GetOutcomes == {0, 200, 403, 404, 503}
RetryStatus == {429, 500, 502, 503, 504}

\* a single request, its response returned or its exception raised
http_get_once(attempt, outcome) == IF outcome = 0 THEN "raise" ELSE "return"
\* http_get, one request at a time: what follows request number attempt.
http_get_step(attempt, outcome) ==
    IF attempt <= 3
    THEN IF outcome = 0 \/ outcome \in RetryStatus THEN "retry" ELSE "return"
    ELSE IF outcome = 0 THEN "raise" ELSE "return"

\* main's handling of the daily page's response
daily_status_raise(status) == IF status = 200 THEN "parse" ELSE "raise"
daily_status(status) ==
    IF status = 404 THEN "skip"
    ELSE IF status # 200 THEN "warn"
    ELSE "parse"

\* ------------------------------------------------------------------- pages
\* The anchors a daily page can hold, as (text, href) before any trimming.
RawAnchors ==
    { [title |-> <<65>>,     href |-> <<49>>],
      [title |-> <<66>>,     href |-> <<49>>],
      [title |-> <<32, 65>>, href |-> <<49, 50, 32>>],
      [title |-> <<32>>,     href |-> <<50>>],
      [title |-> <<65>>,     href |-> <<>>] }

Pages == UNION {[1..n -> RawAnchors] : n \in 0..MaxAnchors}

\* {p["url"]: p for p in posts} then list(values()): a key keeps the place of
\* its first record and the value of its last.
RECURSIVE dict_by_url_from(_, _)
dict_by_url_from(acc, posts) ==
    IF posts = <<>> THEN acc
    ELSE LET p == Head(posts)
             at == {k \in 1..Len(acc) : acc[k].url = p.url}
         IN  IF at = {} THEN dict_by_url_from(Append(acc, p), Tail(posts))
             ELSE dict_by_url_from([k \in 1..Len(acc) |-> IF k \in at THEN p ELSE acc[k]],
                                   Tail(posts))

\* every record kept, duplicates of a url included
dict_by_url_keep_all(posts) == posts
dict_by_url(posts) == dict_by_url_from(<<>>, posts)

\* every anchor kept, trimmed but not tested
valid_posts_untested(page) ==
    [k \in 1..Len(page) |-> [title |-> strip(page[k].title), url |-> strip(page[k].href)]]

RECURSIVE valid_posts(_)
valid_posts(page) ==
    IF page = <<>> THEN <<>>
    ELSE LET title == strip(Head(page).title)
             href == strip(Head(page).href)
         IN  (IF title # <<>> /\ href # <<>> THEN <<[title |-> title, url |-> href]>> ELSE <<>>)
             \o valid_posts(Tail(page))

\* extract_posts_from_daily_page(html_text)
extract_posts_from_daily_page(page) == dict_by_url(valid_posts(page))

\* list.sort(key=url): stable insertion into the sorted prefix
RECURSIVE insert_by_url(_, _)
insert_by_url(sorted, p) ==
    IF sorted = <<>> THEN <<p>>
    ELSE IF StrLess(p.url, Head(sorted).url) THEN <<p>> \o sorted
    ELSE <<Head(sorted)>> \o insert_by_url(Tail(sorted), p)

RECURSIVE sort_from(_, _)
sort_from(sorted, posts) ==
    IF posts = <<>> THEN sorted
    ELSE sort_from(insert_by_url(sorted, Head(posts)), Tail(posts))

unsorted(posts) == posts
sort_by_url(posts) == sort_from(<<>>, posts)

\* ------------------------------------------------------------------- sink
\* One sendMessage ends in a response (its status) or in an exception (0).
SendOutcomes == {0, 200, 400}

telegram_send_message_unchecked(outcome) == "ok"
telegram_send_message_no_status(outcome) == IF outcome = 0 THEN "raise" ELSE "ok"
\* telegram_send_message: returns, or raises
telegram_send_message(outcome) ==
    IF outcome = 0 THEN "raise"
    ELSE IF outcome # 200 THEN "raise"
    ELSE "ok"

\* ------------------------------------------------------------ blog bases
\* The slug lists a source can yield, in the order sorted() leaves them.
SlugLists == { <<>>, <<"cleve">> }
DefaultSlugs == <<"matlab", "simulink", "cleve">>


\* every source consulted in turn, whatever the one before it yielded
after_source_always(src, bases) ==
    CASE src = "blogger" -> "home"
      [] src = "home" -> "file"
      [] src = "file" -> "env"
      [] OTHER -> "default"

\* main, lines 228-239: `if not blog_bases:` before each source but the first;
\* where main goes once source src has yielded bases
after_source(src, bases) ==
    IF bases # <<>> THEN "daily"
    ELSE CASE src = "blogger" -> "home"
           [] src = "home" -> "file"
           [] src = "file" -> "env"
           [] OTHER -> "default"

\* the daily loop left after its first page
after_base_first(k, bases) == "normalize"
\* for base_url in blog_bases: where the loop goes after base number k
after_base(k, bases) == IF k = Len(bases) THEN "normalize" ELSE "daily"

\* ------------------------------------------------------------------- state
VARIABLES
    pc,             \* where the current invocation of main() stands
    clock,          \* invocations started so far; datetime.utcnow() reads it
    dbState,        \* state.sqlite: "missing", "valid" or "corrupt"
    posted,         \* the committed rows of the posted table
    conn,           \* whether this run holds an open connection
    bot_token, channel,
    blog_bases, bi, \* the bases to scan and the index of the one being fetched
    attempt,        \* http_get's request number, 1..4
    r,              \* status of the response http_get returned last (0: none)
    got,            \* ghost: how the GET made last ended (0: exception, -1: none)
    all_posts, posts_to_send,
    i,              \* index into posts_to_send
    sent, skipped,
    dropped,        \* ghost: the page parsed last held an anchor that was not kept
    failKind,       \* what ended a failed run: "config", "db", "fetch", "file", "send"
    fetched,        \* history: a GET was issued in this run
    sendLog,        \* history: this run's sendMessage calls, (url, ok)
    posted0, db0,   \* history: the store as this run found it
    prev,           \* history: the last run a failed send ended, (plan, k)
    delivered,      \* history: successful sends per url, over all runs
    summary,        \* history: the counts of this run's [DONE] line, if printed
    crashAt,        \* history: where this run was killed, if it was
    opened,         \* history: this run opened state.sqlite
    env,            \* history: the environment this run was started with
    api             \* history: the last two calls made on the store directly

vars == <<pc, clock, dbState, posted, conn, bot_token, channel, blog_bases, bi,
          attempt, r, got, all_posts, posts_to_send, i, sent, skipped, dropped, failKind,
          fetched, sendLog, posted0, db0, prev, delivered, summary, crashAt,
          opened, env, api>>

Urls == {strip(a.href) : a \in RawAnchors} \ {<<>>}
Stopped == {"idle", "done", "failed", "crashed"}
DeliveryLoop == {"loop", "send", "mark"}
NoPrev == [plan |-> <<>>, k |-> 0, run |-> 0, after |-> {}]
NoSummary == [sent |-> -1, skipped |-> -1]
NoEnv == [BOT_TOKEN |-> <<>>, CHANNEL_CHAT_ID |-> <<>>, CHANNEL_USERNAME |-> <<>>]

store == <<dbState, posted>>
\* the memory of the running process
memory == <<bot_token, channel, blog_bases, bi, attempt, r, all_posts, posts_to_send,
            i, sent, skipped, dropped, got>>
runHistory == <<fetched, sendLog, posted0, db0, summary, crashAt, opened, env>>
allHistory == <<prev, delivered, api>>

Init ==
    /\ pc = "idle"
    /\ clock = 0
    /\ dbState = "missing"
    /\ posted = {}
    /\ conn = FALSE
    /\ bot_token = <<>>
    /\ channel = <<>>
    /\ blog_bases = <<>>
    /\ bi = 1
    /\ attempt = 1
    /\ r = 0
    /\ all_posts = <<>>
    /\ posts_to_send = <<>>
    /\ i = 1
    /\ sent = 0
    /\ skipped = 0
    /\ dropped = FALSE
    /\ got = -1
    /\ failKind = "none"
    /\ fetched = FALSE
    /\ sendLog = <<>>
    /\ posted0 = {}
    /\ db0 = "missing"
    /\ prev = NoPrev
    /\ delivered = [u \in Urls |-> 0]
    /\ summary = NoSummary
    /\ crashAt = "none"
    /\ opened = FALSE
    /\ env = NoEnv
    /\ api = <<>>

\* the process ends: its memory and its connection are gone
Exit(how, kind) ==
    /\ pc' = how
    /\ failKind' = kind
    /\ conn' = FALSE
    /\ bot_token' = <<>>
    /\ channel' = <<>>
    /\ blog_bases' = <<>>
    /\ bi' = 1
    /\ attempt' = 1
    /\ r' = 0
    /\ all_posts' = <<>>
    /\ posts_to_send' = <<>>
    /\ i' = 1
    /\ sent' = 0
    /\ skipped' = 0
    /\ dropped' = FALSE
    /\ got' = -1

\* an exception leaves main
Fail(kind) == Exit("failed", kind)

\* main, lines 218-223: a new process reads its configuration
Configure ==
    /\ pc \in Stopped
    /\ clock < MaxRuns
    /\ clock' = clock + 1
    /\ \E e \in Envs :
         LET token == env_required(e.BOT_TOKEN)
             chan == env_any(<<e.CHANNEL_CHAT_ID, e.CHANNEL_USERNAME>>)
         IN  /\ env' = e
             /\ IF token.exit \/ chan.exit
                THEN Fail("config")
                ELSE /\ pc' = "init_db"
                     /\ failKind' = "none"
                     /\ bot_token' = token.v
                     /\ channel' = normalize_channel(chan.v)
                     /\ UNCHANGED <<conn, blog_bases, bi, attempt, r, all_posts,
                                    posts_to_send, i, sent, skipped, dropped, got>>
    /\ fetched' = FALSE
    /\ sendLog' = <<>>
    /\ posted0' = posted
    /\ db0' = dbState
    /\ summary' = NoSummary
    /\ crashAt' = "none"
    /\ opened' = FALSE
    /\ UNCHANGED <<store, allHistory>>

\* init_db, line 225: connect, CREATE TABLE IF NOT EXISTS, commit
init_db ==
    /\ pc = "init_db"
    /\ IF dbState = "corrupt"
       THEN /\ Fail("db")
            /\ UNCHANGED store
       ELSE /\ pc' = "blogger"
            /\ conn' = TRUE
            /\ dbState' = "valid"
            /\ posted' = create_table_if_not_exists(dbState, posted)
            /\ UNCHANGED <<failKind, memory>>
    /\ opened' = TRUE
    /\ UNCHANGED <<clock, fetched, sendLog, posted0, db0, summary, crashAt, env,
                   allHistory>>

\* extract_blog_base_urls_from_blogger, line 228: one GET of /blogger/
FetchBlogger ==
    /\ pc = "blogger"
    /\ fetched' = TRUE
    /\ \E outcome \in GetOutcomes :
         LET step == http_get_step(attempt, outcome)
             rest == <<conn, failKind, bot_token, channel, all_posts, posts_to_send,
                       i, sent, skipped, dropped>>
         IN  \/ /\ step = "retry"
                /\ attempt' = attempt + 1
                /\ got' = outcome
                /\ UNCHANGED <<pc, r, blog_bases, bi, rest>>
             \/ /\ step = "raise"
                /\ Fail("fetch")
             \/ /\ step = "return"
                /\ r' = outcome
                /\ got' = outcome
                /\ attempt' = 1
                /\ \E slugs \in SlugLists :
                     /\ outcome # 200 => slugs = <<>>
                     /\ blog_bases' = slugs
                     /\ pc' = after_source("blogger", slugs)
                /\ UNCHANGED <<bi, rest>>
    /\ UNCHANGED <<clock, store, sendLog, posted0, db0, summary, crashAt, opened, env,
                   allHistory>>

\* extract_blog_base_urls_from_home, line 231: one GET of the home page
FetchHome ==
    /\ pc = "home"
    /\ fetched' = TRUE
    /\ \E outcome \in GetOutcomes :
         LET step == http_get_step(attempt, outcome)
             rest == <<conn, failKind, bot_token, channel, all_posts, posts_to_send,
                       i, sent, skipped, dropped>>
         IN  \/ /\ step = "retry"
                /\ attempt' = attempt + 1
                /\ got' = outcome
                /\ UNCHANGED <<pc, r, blog_bases, bi, rest>>
             \/ /\ step = "raise"
                /\ Fail("fetch")
             \/ /\ step = "return"
                /\ r' = outcome
                /\ got' = outcome
                /\ attempt' = 1
                /\ \E slugs \in SlugLists :
                     /\ outcome # 200 => slugs = <<>>
                     /\ blog_bases' = slugs
                     /\ pc' = after_source("home", slugs)
                /\ UNCHANGED <<bi, rest>>
    /\ UNCHANGED <<clock, store, sendLog, posted0, db0, summary, crashAt, opened, env,
                   allHistory>>

\* blog_bases_from_slugs_file, line 234: the file BLOG_SLUGS_FILE names is
\* read, or open() raises
SlugsFile ==
    /\ pc = "file"
    /\ \/ \E slugs \in SlugLists :
              /\ blog_bases' = slugs
              /\ pc' = after_source("file", slugs)
              /\ UNCHANGED <<conn, failKind, bot_token, channel, bi, attempt, r, got,
                             all_posts, posts_to_send, i, sent, skipped, dropped>>
       \/ Fail("file")
    /\ UNCHANGED <<clock, store, runHistory, allHistory>>

\* blog_bases_fallback_from_env, line 237: BLOG_SLUGS is read
SlugsEnv ==
    /\ pc = "env"
    /\ \E slugs \in SlugLists :
         /\ blog_bases' = slugs
         /\ pc' = after_source("env", slugs)
    /\ UNCHANGED <<clock, store, conn, failKind, bot_token, channel, bi, attempt, r, got,
                   all_posts, posts_to_send, i, sent, skipped, dropped, runHistory,
                   allHistory>>

\* lines 239-242: the built-in slugs, with a [WARN]
SlugsDefault ==
    /\ pc = "default"
    /\ blog_bases' = DefaultSlugs
    /\ pc' = "daily"
    /\ UNCHANGED <<clock, store, conn, failKind, bot_token, channel, bi, attempt, r, got,
                   all_posts, posts_to_send, i, sent, skipped, dropped, runHistory,
                   allHistory>>

\* lines 247-260: one GET of the daily page of blog_bases[bi]
FetchDaily ==
    /\ pc = "daily"
    /\ fetched' = TRUE
    /\ \E outcome \in GetOutcomes :
         LET step == http_get_step(attempt, outcome)
             next == after_base(bi, blog_bases)
             rest == <<conn, failKind, bot_token, channel, blog_bases, posts_to_send,
                       i, sent, skipped, dropped>>
         IN  \/ /\ step = "retry"
                /\ attempt' = attempt + 1
                /\ got' = outcome
                /\ UNCHANGED <<pc, r, bi, all_posts, rest>>
             \/ /\ step = "raise" \/ (step = "return" /\ daily_status(outcome) = "raise")
                /\ Fail("fetch")
             \/ /\ step = "return"
                /\ daily_status(outcome) \in {"skip", "warn"}
                /\ r' = outcome
                /\ got' = outcome
                /\ attempt' = 1
                /\ bi' = bi + 1
                /\ pc' = next
                /\ UNCHANGED <<all_posts, rest>>
             \/ /\ step = "return"
                /\ daily_status(outcome) = "parse"
                /\ r' = outcome
                /\ got' = outcome
                /\ attempt' = 1
                /\ pc' = "parse"
                /\ UNCHANGED <<bi, all_posts, rest>>
    /\ UNCHANGED <<clock, store, sendLog, posted0, db0, summary, crashAt, opened, env,
                   allHistory>>

\* lines 257-260: the posts of the page just fetched
ParseDaily ==
    /\ pc = "parse"
    /\ \E page \in Pages :
         LET posts == extract_posts_from_daily_page(page)
         IN  /\ Len(all_posts) + Len(posts) <= MaxPosts
             /\ all_posts' = all_posts \o posts
             /\ dropped' = (Len(valid_posts(page)) < Len(page))
    /\ bi' = bi + 1
    /\ pc' = after_base(bi, blog_bases)
    /\ UNCHANGED <<clock, store, conn, bot_token, channel, blog_bases, attempt, r,
                   posts_to_send, i, sent, skipped, got, failKind, runHistory, allHistory>>

\* lines 262-268: the cross-page dedup, the sort, the counters; the pages are
\* not looked at again
Normalize ==
    /\ pc = "normalize"
    /\ posts_to_send' = sort_by_url(dict_by_url(all_posts))
    /\ sent' = 0
    /\ skipped' = 0
    /\ i' = 1
    /\ pc' = "loop"
    /\ dropped' = FALSE
    /\ UNCHANGED <<clock, store, conn, bot_token, channel, blog_bases, bi, attempt, r,
                   all_posts, got, failKind, runHistory, allHistory>>

\* lines 269-272 and 279: the head of the delivery loop, and the [DONE] line
Loop ==
    /\ pc = "loop"
    /\ IF i > Len(posts_to_send)
       THEN /\ Exit("done", "none")
            /\ summary' = [sent |-> sent, skipped |-> skipped]
       ELSE /\ IF already_posted(posted, posts_to_send[i].url)
               THEN /\ skipped' = skipped + 1
                    /\ i' = i + 1
                    /\ UNCHANGED pc
               ELSE /\ pc' = "send"
                    /\ UNCHANGED <<i, skipped>>
            /\ UNCHANGED <<conn, failKind, bot_token, channel, blog_bases, bi, attempt, r,
                           all_posts, posts_to_send, sent, dropped, got, summary>>
    /\ UNCHANGED <<clock, store, fetched, sendLog, posted0, db0, crashAt, opened, env,
                   allHistory>>

\* the posts of this run that the store did not hold when the run began
Planned == SelectSeq(posts_to_send, LAMBDA p : ~already_posted(posted0, p.url))

\* line 274: one sendMessage for posts_to_send[i]
Send ==
    /\ pc = "send"
    /\ \E outcome \in SendOutcomes :
         LET url == posts_to_send[i].url
         IN  /\ sendLog' = Append(sendLog, [url |-> url, ok |-> outcome = 200])
             /\ delivered' = IF outcome = 200
                             THEN [delivered EXCEPT ![url] = @ + 1]
                             ELSE delivered
             /\ IF telegram_send_message(outcome) = "raise"
                THEN /\ Fail("send")
                     /\ prev' = [plan |-> [k \in 1..Len(Planned) |-> Planned[k].url],
                                 k |-> sent, run |-> clock, after |-> {}]
                ELSE /\ pc' = "mark"
                     /\ prev' = IF prev # NoPrev /\ outcome = 200
                                THEN [prev EXCEPT !.after = @ \cup {url}]
                                ELSE prev
                     /\ UNCHANGED <<conn, failKind, memory>>
    /\ UNCHANGED <<clock, store, fetched, posted0, db0, summary, crashAt, opened, env,
                   api>>

\* lines 275-277: mark_posted, sent += 1
Mark ==
    /\ pc = "mark"
    /\ posted' = mark_posted(posted, posts_to_send[i].url, clock)
    /\ sent' = sent + 1
    /\ i' = i + 1
    /\ pc' = "loop"
    /\ UNCHANGED <<clock, dbState, conn, bot_token, channel, blog_bases, bi, attempt, r,
                   all_posts, posts_to_send, skipped, dropped, got, failKind, runHistory,
                   allHistory>>

\* the process is killed between two steps; only committed rows survive
Crash ==
    /\ pc \notin Stopped
    /\ Exit("crashed", "none")
    /\ crashAt' = pc
    /\ UNCHANGED <<clock, store, fetched, sendLog, posted0, db0, summary, opened, env,
                   allHistory>>

\* between runs, state.sqlite is overwritten with something that is no database
CorruptStore ==
    /\ pc \in Stopped
    /\ dbState # "corrupt"
    /\ dbState' = "corrupt"
    /\ UNCHANGED <<pc, clock, posted, conn, memory, failKind, runHistory, allHistory>>

Next ==
    \/ Configure
    \/ init_db
    \/ FetchBlogger
    \/ FetchHome
    \/ SlugsFile
    \/ SlugsEnv
    \/ SlugsDefault
    \/ FetchDaily
    \/ ParseDaily
    \/ Normalize
    \/ Loop
    \/ Send
    \/ Mark
    \/ Crash
    \/ CorruptStore

Spec == Init /\ [][Next]_vars

\* Runs that end by themselves, normally or on an exception: the process is
\* never killed and nothing but main touches state.sqlite.
RunsNext ==
    \/ Configure
    \/ init_db
    \/ FetchBlogger
    \/ FetchHome
    \/ SlugsFile
    \/ SlugsEnv
    \/ SlugsDefault
    \/ FetchDaily
    \/ ParseDaily
    \/ Normalize
    \/ Loop
    \/ Send
    \/ Mark

RunsSpec == Init /\ [][RunsNext]_vars

\* ------------------------------------------------- the store, called directly
\* init_db, already_posted and mark_posted in any order and with any url, as a
\* caller other than main could use them; the clock moves between calls.
Call(op, url, ret) ==
    api' = (IF Len(api) = 2 THEN Tail(api) ELSE api)
           \o <<[op |-> op, url |-> url, ret |-> ret, after |-> posted']>>

CallInitDb ==
    /\ dbState # "corrupt"
    /\ dbState' = "valid"
    /\ posted' = create_table_if_not_exists(dbState, posted)
    /\ conn' = TRUE
    /\ Call("init_db", <<>>, TRUE)
    /\ UNCHANGED <<pc, clock, memory, failKind, runHistory, prev, delivered>>

CallAlreadyPosted ==
    /\ conn
    /\ \E url \in Urls :
         /\ posted' = posted
         /\ Call("already_posted", url, already_posted(posted, url))
    /\ UNCHANGED <<pc, clock, dbState, conn, memory, failKind, runHistory, prev, delivered>>

CallMarkPosted ==
    /\ conn
    /\ \E url \in Urls :
         /\ posted' = mark_posted(posted, url, clock)
         /\ Call("mark_posted", url, TRUE)
    /\ UNCHANGED <<pc, clock, dbState, conn, memory, failKind, runHistory, prev, delivered>>

Tick ==
    /\ clock < MaxRuns
    /\ clock' = clock + 1
    /\ UNCHANGED <<pc, store, conn, memory, failKind, runHistory, allHistory>>

StoreNext ==
    \/ CallInitDb
    \/ CallAlreadyPosted
    \/ CallMarkPosted
    \/ Tick

StoreSpec == Init /\ [][StoreNext]_vars


\* ------------------------------------------------------------------ claims
Range(seq) == {seq[k] : k \in 1..Len(seq)}
OkSends == SelectSeq(sendLog, LAMBDA c : c.ok)
OkSendUrls == {c.url : c \in Range(OkSends)}
FetchedUrls == {p.url : p \in Range(posts_to_send)}
\* the delivery loop has gone through all of posts_to_send
LoopFinished == pc = "loop" /\ i > Len(posts_to_send)
\* a run later than the one whose failed send prev records
AfterFailedRun == prev # NoPrev /\ prev.run < clock
PrevSentBefore == {prev.plan[k] : k \in 1..prev.k}
PrevLeftOver == {prev.plan[k] : k \in (prev.k + 1)..Len(prev.plan)}

\* C1: after a run whose send failed on post k+1 of its n planned posts, the
\* posts 1..k are never sent again, and once a later run that fetched all n
\* posts has gone through its delivery loop, each of the posts k+1..n has been
\* sent since the failure.
NoLossUnderPerItemCommit ==
    /\ prev.after \cap PrevSentBefore = {}
    /\ AfterFailedRun => \A c \in Range(sendLog) : c.url \notin PrevSentBefore
    /\ (AfterFailedRun /\ LoopFinished /\ Range(prev.plan) \subseteq FetchedUrls)
           => PrevLeftOver \subseteq prev.after

\* C1 witness: the run after a failure on post 2 of 2 sends exactly post 2.
NoLossWitness ==
    /\ AfterFailedRun
    /\ prev.run = clock - 1
    /\ LoopFinished
    /\ prev.k >= 1
    /\ Len(prev.plan) > prev.k
    /\ Range(prev.plan) \subseteq FetchedUrls
    /\ OkSendUrls = PrevLeftOver
    /\ skipped >= 1

CrashedInDelivery == pc = "crashed" /\ crashAt \in DeliveryLoop

\* C2, as stated: a crash anywhere in the delivery loop leaves exactly the
\* posts sent so far in the posted set, and no post is ever sent twice.
CrashLeavesExactlySentPosts ==
    /\ CrashedInDelivery => PostedUrls(posted) = PostedUrls(posted0) \cup OkSendUrls
    /\ \A u \in Urls : delivered[u] <= 1

\* C2, amended: a crash in the delivery loop leaves exactly the posts sent so
\* far in the posted set, unless it falls between a successful send and its
\* mark_posted: then the post sent last is missing from the set (and will be
\* sent again).  Nothing is recorded that was not sent.
CrashLeavesSentPostsButLast ==
    /\ CrashedInDelivery =>
         LET n == Len(OkSends)
             marked == IF crashAt = "mark"
                       THEN {OkSends[k].url : k \in 1..(n - 1)}
                       ELSE OkSendUrls
         IN  /\ PostedUrls(posted) = PostedUrls(posted0) \cup marked
             /\ crashAt = "mark" => n >= 1 /\ OkSends[n].url \notin PostedUrls(posted)
    /\ \A u \in PostedUrls(posted) : delivered[u] >= 1

\* C2 witness: a crash between send and mark_posted, in a run that re-sent a
\* post an earlier such crash had left unrecorded.
CrashInWindowWitness ==
    /\ CrashedInDelivery
    /\ crashAt = "mark"
    /\ Len(OkSends) >= 2
    /\ \E u \in Urls : delivered[u] = 2

\* C3: a failed sendMessage is the last call of its run, and the run has failed.
FailFastDelivery ==
    \A k \in 1..Len(sendLog) :
        ~sendLog[k].ok => k = Len(sendLog) /\ pc = "failed" /\ failKind = "send"

\* C3 witness: the send of post 1 of 2 failed, and post 2 was not tried.
FailFastWitness ==
    /\ pc = "failed"
    /\ failKind = "send"
    /\ prev.run = clock
    /\ Len(prev.plan) > prev.k + 1
    /\ Len(sendLog) = prev.k + 1

\* C4: when a send fails, the posted table is the one the run found plus the
\* urls sent before the failure; no row is lost, and the url that failed and
\* those behind it are not in it.
DeliveryErrorKeepsCommits ==
    (pc = "failed" /\ failKind = "send") =>
        /\ PostedUrls(posted) = PostedUrls(posted0) \cup OkSendUrls
        /\ posted0 \subseteq posted
        /\ prev.run = clock
        /\ PrevLeftOver \cap PostedUrls(posted) = {}
        /\ ~sendLog[Len(sendLog)].ok /\ sendLog[Len(sendLog)].url \in PrevLeftOver

\* C4 witness: the failure came after a successful send, in a run that found
\* rows in the store.
DeliveryErrorWitness ==
    /\ pc = "failed"
    /\ failKind = "send"
    /\ OkSendUrls # {}
    /\ PrevLeftOver # {}

\* the response to a daily page has been handled and the run goes on
DailyPageHandled ==
    \/ pc = "daily" /\ bi > 1
    \/ pc \in {"normalize", "loop", "send", "mark"}

\* C5, as stated: a daily page answered with a status other than 200 (404 is
\* "no posts") never leaves the run going.
FetchErrorIsFatal == DailyPageHandled => r \in {200, 404}

\* a step of a fetch that ends the run: the fourth request raised
FetchFailureStep ==
    (pc \in {"blogger", "home", "daily"} /\ pc' = "failed")
        => (failKind' = "fetch" /\ attempt = 4 /\ posted' = posted)

\* a step that leaves a daily page without parsing it: a response other than 200
PageSkippedStep ==
    (pc = "daily" /\ bi' = bi + 1)
        => (/\ r' \notin {0, 200}
            /\ pc' = (IF bi = Len(blog_bases) THEN "normalize" ELSE "daily")
            /\ UNCHANGED <<all_posts, posted, sendLog>>)

\* C5, amended: only an exception out of http_get (its fourth request failing)
\* ends the run, and then nothing was sent and no row written; a response
\* other than 200 skips that page and the run goes on with the next one.
FetchErrorPolicy ==
    /\ [](pc = "failed" /\ failKind = "fetch" => sendLog = <<>> /\ posted = posted0)
    /\ [][FetchFailureStep]_vars
    /\ [][PageSkippedStep]_vars

\* C5 witness: the last daily page was answered 403 or 503, and a post of an
\* earlier page is being delivered.
FetchErrorWitness == pc = "mark" /\ r \in {403, 503}

\* the first record of all_posts with this url
FirstWithUrl(url) ==
    all_posts[CHOOSE k \in 1..Len(all_posts) :
                 /\ all_posts[k].url = url
                 /\ \A j \in 1..(k - 1) : all_posts[j].url # url]

\* C6, as stated: of the fetched records with one url, posts_to_send holds
\* exactly one, and it is the first of them.
DedupKeepsFirstOccurrence ==
    pc \in DeliveryLoop =>
        \A u \in {p.url : p \in Range(all_posts)} :
            /\ Cardinality({k \in 1..Len(posts_to_send) : posts_to_send[k].url = u}) = 1
            /\ \A p \in Range(posts_to_send) : p.url = u => p = FirstWithUrl(u)

MarkCall(c, url) == c.op = "mark_posted" /\ c.url = url

\* C7: a second mark_posted of a url leaves the table as the first left it,
\* rows and size, and already_posted of that url is true after either call.
IdempotentMembership ==
    /\ \A k \in 1..Len(api) :
           api[k].op = "mark_posted" => already_posted(api[k].after, api[k].url)
    /\ \A u \in Urls :
           (Len(api) = 2 /\ MarkCall(api[1], u)) =>
               /\ MarkCall(api[2], u) =>
                      /\ api[2].after = api[1].after
                      /\ Cardinality(api[2].after) = Cardinality(api[1].after)
               /\ (api[2].op = "already_posted" /\ api[2].url = u) => api[2].ret

\* C7 witness: the same url marked twice, the clock having moved in between.
IdempotentMembershipWitness ==
    /\ Len(api) = 2
    /\ \E u \in Urls :
           /\ MarkCall(api[1], u)
           /\ MarkCall(api[2], u)
           /\ \E row \in posted : row.url = u /\ row.posted_at < clock
    /\ Cardinality(posted) = 2

\* C8: a run sends only posts whose url the store did not hold, in ascending
\* order of url, and once its loop is through it has sent every such post.
IncrementalPolicy ==
    /\ \A c \in Range(sendLog) : ~already_posted(posted0, c.url)
    /\ \A k \in 1..(Len(sendLog) - 1) : StrLess(sendLog[k].url, sendLog[k + 1].url)
    /\ LoopFinished =>
           /\ OkSendUrls = {u \in FetchedUrls : ~already_posted(posted0, u)}
           /\ OkSends = [k \in 1..Len(Planned) |-> [url |-> Planned[k].url, ok |-> TRUE]]
           /\ skipped = Cardinality({u \in FetchedUrls : already_posted(posted0, u)})

\* C8 witness: a run that skipped a posted url and sent a new one, the posts
\* having been fetched in descending order of url.
IncrementalPolicyWitness ==
    /\ LoopFinished
    /\ skipped >= 1
    /\ sent >= 1
    /\ Len(all_posts) >= 2
    /\ StrLess(all_posts[2].url, all_posts[1].url)

\* a step of init_db that is not a kill of the process
LoadStep ==
    (pc = "init_db" /\ pc' # "crashed")
        => (/\ pc' = "blogger"
            /\ posted' = (IF dbState = "valid" THEN posted ELSE {}))

\* C9, as stated: init_db never ends the run; a missing or unreadable store
\* gives the empty table, a valid one is left as it is.
LoadNeverFails == [][LoadStep]_vars

EnvBlank ==
    \/ strip(env.BOT_TOKEN) = <<>>
    \/ strip(env.CHANNEL_CHAT_ID) = <<>> /\ strip(env.CHANNEL_USERNAME) = <<>>

\* C10: a run started without BOT_TOKEN, or without both channel variables,
\* has failed on its configuration: it opened no store, issued no GET, sent
\* nothing and wrote no row.
ConfigErrorsArePreflight ==
    /\ (clock >= 1 /\ EnvBlank) =>
           /\ pc = "failed" /\ failKind = "config"
           /\ ~opened /\ ~conn /\ ~fetched
           /\ sendLog = <<>>
           /\ posted = posted0
    /\ (pc = "failed" /\ failKind = "config") => EnvBlank

\* C10 witness: a run without a channel, against a store that holds rows.
ConfigErrorWitness ==
    /\ pc = "failed"
    /\ failKind = "config"
    /\ strip(env.BOT_TOKEN) # <<>>
    /\ posted # {}

\* C11, as stated: a run that has ended after at least one successful send,
\* whether it completed or a later send failed, has printed its summary line.
SummaryAlwaysPrinted ==
    (pc \in {"done", "failed"} /\ OkSends # <<>>) => summary # NoSummary

\* every post this run fetched was in the store when the run began
NothingNew == FetchedUrls \subseteq PostedUrls(posted0)

\* a step of the delivery loop of a nothing-new run, other than a kill: it
\* skips the next post, or it prints [DONE] with sent = 0 and ends the run
NothingNewStep ==
    (pc = "loop" /\ NothingNew /\ pc' # "crashed") =>
        /\ posted' = posted
        /\ sendLog' = <<>>
        /\ IF i > Len(posts_to_send)
           THEN /\ pc' = "done"
                /\ failKind' = "none"
                /\ summary' = [sent |-> 0, skipped |-> Len(posts_to_send)]
           ELSE /\ pc' = "loop"
                /\ i' = i + 1
                /\ skipped' = skipped + 1

\* C12: a run in which every fetched url is already in the posted set never
\* leaves the head of its delivery loop for a send or a mark_posted, leaves
\* the posted set as it found it, and ends with [DONE] sent=0.
NothingNewRun ==
    /\ []((pc \in DeliveryLoop /\ NothingNew) =>
              /\ pc = "loop"
              /\ sendLog = <<>>
              /\ sent = 0
              /\ skipped = i - 1
              /\ posted = posted0)
    /\ [][NothingNewStep]_vars

\* C12 witness: a completed run that skipped two posts and sent none, over a
\* store that held both.
NothingNewWitness ==
    /\ pc = "done"
    /\ summary = [sent |-> 0, skipped |-> 2]
    /\ sendLog = <<>>
    /\ posted = posted0
    /\ Cardinality(posted) = 2

\* a record with a title and a url, both trimmed and neither empty
ValidPost(p) ==
    /\ p.title # <<>> /\ strip(p.title) = p.title
    /\ p.url # <<>> /\ strip(p.url) = p.url

\* the urls of the anchors that have a title and an href once trimmed
ValidUrls ==
    {strip(a.href) : a \in {b \in RawAnchors : strip(b.title) # <<>> /\ strip(b.href) # <<>>}}

\* C13: every record collected, every post a send is attempted for and every
\* url in the posted set has a non-empty trimmed title and url and comes from
\* an anchor that had both; when a page held an anchor that was dropped, the
\* run has not failed and goes on with the next page or with delivery.
NoInvalidItemDelivered ==
    /\ \A p \in Range(all_posts) \cup Range(posts_to_send) :
           ValidPost(p) /\ p.url \in ValidUrls
    /\ \A c \in Range(sendLog) : c.url \in ValidUrls
    /\ pc \in {"send", "mark"} => ValidPost(posts_to_send[i])
    /\ PostedUrls(posted) \subseteq ValidUrls
    /\ <<>> \notin ValidUrls /\ \A u \in ValidUrls : strip(u) = u
    /\ dropped => (pc \in {"daily", "parse", "normalize"} /\ failKind = "none")

\* C13 witness: the last page held an anchor that was dropped, and the run
\* enters normalisation with a record whose title and href had blanks around.
NoInvalidItemWitness ==
    /\ pc = "normalize"
    /\ dropped
    /\ \E p \in Range(all_posts) : p.url = <<49, 50>> /\ p.title = <<65>>

\* C14: over runs that are never killed, on a store nothing else writes to,
\* whatever sends and fetches fail, no url is sent successfully twice.
AtMostOnceDelivery == \A u \in Urls : delivered[u] <= 1

\* C14 witness: a run after one that a failed send ended has gone through its
\* loop, skipping what was sent before and sending the rest; each fetched url
\* has been sent exactly once.
AtMostOnceWitness ==
    /\ AfterFailedRun
    /\ LoopFinished
    /\ skipped >= 1
    /\ sent >= 1
    /\ Cardinality(FetchedUrls) = 2
    /\ \A u \in FetchedUrls : delivered[u] = 1

\* the call on the store this step makes, if it makes one
CallMade(op) == api' # api /\ api'[Len(api')].op = op

\* a step never removes a row; only mark_posted, called by main at line 275
\* or directly, adds one, and it adds the row of its url and nothing else;
\* init_db and already_posted leave the table as it is
SeenSetStep ==
    /\ posted \subseteq posted'
    /\ posted' # posted =>
           /\ pc = "mark" \/ CallMade("mark_posted")
           /\ \E u \in Urls :
                  /\ ~already_posted(posted, u)
                  /\ posted' = posted \cup {[url |-> u, posted_at |-> clock]}
    /\ CallMade("already_posted") \/ CallMade("init_db") => posted' = posted
    /\ pc \in {"init_db", "loop", "send"} => posted' = posted

\* C15: over any runs and any calls of init_db, already_posted and
\* mark_posted, no row leaves the posted table; already_posted and init_db
\* leave it unchanged, and only mark_posted adds to it.
SeenSetOnlyGrows == [][SeenSetStep]_vars

\* C15 witness: init_db called on a store that holds two rows, right after a
\* mark_posted, and both rows are still there.
SeenSetWitness ==
    /\ Len(api) = 2
    /\ api[1].op = "mark_posted"
    /\ api[2].op = "init_db"
    /\ Cardinality(api[1].after) = 2
    /\ posted = api[1].after

FetchPhase == {"blogger", "home", "file", "env", "default", "daily", "parse", "normalize"}

\* C16: while a run is fetching or normalising it has sent nothing and the
\* posted table is as the run found it; the delivery loop is entered only
\* when the daily page of every blog base has been handled and no request is
\* pending; a run that a failed fetch ended has sent nothing and written no row.
PhaseOrdering ==
    /\ pc \in FetchPhase => sendLog = <<>> /\ posted = posted0 /\ sent = 0
    /\ pc \in DeliveryLoop =>
           /\ blog_bases # <<>>
           /\ bi = Len(blog_bases) + 1
           /\ attempt = 1
    /\ (sendLog # <<>> \/ posted # posted0) =>
           \/ pc \in DeliveryLoop \cup {"done"}
           \/ pc = "failed" /\ failKind = "send"
           \/ pc = "crashed" /\ crashAt \in DeliveryLoop
    /\ (pc = "failed" /\ failKind = "fetch") => sendLog = <<>> /\ posted = posted0

\* C16 witness: a run over a store that holds rows has failed while fetching.
PhaseOrderingWitness ==
    /\ pc = "failed"
    /\ failKind = "fetch"
    /\ fetched
    /\ Cardinality(posted) = 2
    /\ posted = posted0

\* C17: every url in the posted table has been sent successfully at least
\* once; mark_posted is reached only right after the successful send of the
\* same url, and the rows a run adds are urls that run sent successfully.
CommittedImpliesDelivered ==
    /\ \A row \in posted : delivered[row.url] >= 1
    /\ pc = "mark" =>
           /\ sendLog # <<>>
           /\ sendLog[Len(sendLog)] = [url |-> posts_to_send[i].url, ok |-> TRUE]
    /\ PostedUrls(posted) \ PostedUrls(posted0) \subseteq OkSendUrls

\* C17 witness: two rows written by two runs, the first of which a failed
\* send ended; the second has completed.
CommittedWitness ==
    /\ pc = "done"
    /\ AfterFailedRun
    /\ Cardinality(posted) = 2
    /\ \E a \in posted, b \in posted : a.posted_at < b.posted_at
    /\ \A row \in posted : delivered[row.url] = 1

\* a step of http_get, other than a kill: request number attempt is made.
\* Of requests 1 to 3, one answered 429/500/502/503/504 or ending in an
\* exception is followed by the next request and nothing is returned; any
\* other response is returned at once.  The response to request 4 is returned
\* whatever its status; an exception of request 4, and no other, ends the run.
HttpGetStep ==
    (pc \in {"blogger", "home", "daily"} /\ pc' # "crashed") =>
        /\ pc' = "failed" => (attempt = 4 /\ failKind' = "fetch")
        /\ pc' # "failed" =>
               /\ got' \in GetOutcomes
               /\ IF attempt <= 3 /\ (got' = 0 \/ got' \in RetryStatus)
                  THEN /\ attempt' = attempt + 1
                       /\ UNCHANGED <<pc, r, bi, blog_bases, all_posts>>
                  ELSE /\ got' # 0
                       /\ r' = got'
                       /\ attempt' = 1

\* C18: http_get makes at most four requests, retries exactly the first
\* three on a retry status or an exception, returns any other response at
\* once, and returns the fourth response or lets its exception through.
HttpGetBounded ==
    /\ [](attempt \in 1..4)
    /\ [][HttpGetStep]_vars

\* C18 witness: the first daily page was answered 503 four times, and the
\* fourth 503 was returned to main.
HttpGetWitness ==
    /\ pc = "daily"
    /\ bi = 2
    /\ attempt = 1
    /\ r = 503
    /\ got = 503

\* the step that prints the [DONE] line prints the counters as they stand
SummaryStep ==
    (pc = "loop" /\ pc' = "done") =>
        /\ i > Len(posts_to_send)
        /\ summary' = [sent |-> sent, skipped |-> skipped]

\* C19: when the delivery loop is through, sent is the number of successful
\* sends of this run, skipped the number of fetched urls the posted table
\* held, and their sum the number of distinct urls fetched; the [DONE] line
\* reports these two counters, and only a completed run has one.
SummaryCounts ==
    /\ [](LoopFinished =>
              /\ sent = Len(OkSends)
              /\ Len(sendLog) = Len(OkSends)
              /\ skipped = Cardinality({u \in FetchedUrls : u \in PostedUrls(posted0)})
              /\ sent + skipped = Cardinality({p.url : p \in Range(all_posts)})
              /\ sent + skipped = Len(posts_to_send))
    /\ [](pc = "done" <=> summary # NoSummary)
    /\ [](pc = "done" => summary.sent = Len(OkSends) /\ summary.skipped >= 0)
    /\ [][SummaryStep]_vars

\* C19 witness: a completed run that reported one post sent and one skipped.
SummaryCountsWitness ==
    /\ pc = "done"
    /\ summary = [sent |-> 1, skipped |-> 1]
    /\ Len(sendLog) = 1
    /\ Cardinality(posted) = 2

Discovery == {"blogger", "home", "file", "env", "default"}
Scanning == {"daily", "parse"}

\* a step reaches a source only from the source before it (or from a retried
\* request to the same page), and scanning starts with what the source
\* consulted last has yielded; the built-in slugs come from the last step only
SourceOrderStep ==
    /\ pc' = "blogger" => pc \in {"init_db", "blogger"}
    /\ pc' = "home" => pc \in {"blogger", "home"}
    /\ pc' = "file" => pc = "home"
    /\ pc' = "env" => pc = "file"
    /\ pc' = "default" => pc = "env"
    /\ (pc \in Discovery /\ pc' = "daily") =>
           /\ blog_bases' # <<>>
           /\ pc # "default" => blog_bases' \in SlugLists
           /\ pc = "default" <=> blog_bases' = DefaultSlugs
    /\ (pc \in Scanning /\ pc' \in Scanning) => blog_bases' = blog_bases

\* C20: the sources are consulted in the order /blogger/, home page,
\* BLOG_SLUGS_FILE, BLOG_SLUGS, built-in slugs; while a source after the first
\* is being consulted every earlier one has yielded nothing; the first list
\* that is not empty is the one scanned, and scanning never starts on an
\* empty list.
SourceFallbackOrder ==
    /\ [](pc \in Discovery => blog_bases = <<>> /\ bi = 1)
    /\ [](pc \in Scanning \cup {"normalize"} \cup DeliveryLoop => blog_bases # <<>>)
    /\ [][SourceOrderStep]_vars

\* C20 witness: /blogger/ and the home page yielded nothing, the home page
\* being answered 403, neither did the file and the variable, and scanning
\* starts on the built-in slugs.
SourceFallbackWitness ==
    /\ pc = "daily"
    /\ bi = 1
    /\ attempt = 1
    /\ r = 403
    /\ blog_bases = DefaultSlugs

=============================================================================
